---- MODULE Spec2Model ----
(***************************************************************************)
(* Model of the client-side engine of the fruits application: the jar     *)
(* handlers of useFruitsApp, and the pure helpers of utils/fruitUtils     *)
(* (groupFruitsByField, calculateTotalCalories, addFruitToJar,            *)
(* addGroupToJar).                                                         *)
(*                                                                         *)
(* JavaScript strings are sequences of one-character strings, so that     *)
(* property keys can be inspected the way the engine inspects them.       *)
(***************************************************************************)
EXTENDS Integers, Sequences, FiniteSets, TLC

VARIABLES fruits, groupBy, groupedFruits, jarItems, last

\* SearchInput and the search state of useFruitsApp: the text of the input,
\* the two debounced values with their timers, the time since the text last
\* changed, the changes made while the timer of the input was running, and
\* the search event last handled
VARIABLES searchTerm, debouncedSearchTerm, termTimer, searchQuery,
          debouncedSearchQuery, queryTimer, sinceInput, keystrokes, lastSearch

\* the fetch state of useFruitsApp: the flags, the calls of getFruits not yet
\* settled, the number of calls made, and the fetch event last handled
VARIABLES loading, error, inFlight, triggered, lastFetch

\* services/api: the call of getFruits last made, the answer of the server
\* and the way the promise settled
VARIABLES apiCall

\* the view state of useFruitsApp (the fruit of the details modal, whether
\* the modal is open, whether the jar shows its chart) and the fruit id
\* selected in the Jar component
VARIABLES selectedFruit, isModalOpen, showChart, Jar_selectedFruit

\* utils/workerManager: the WorkerManager instance, the promises its request
\* methods returned, and the messages posted to the worker and not answered
VARIABLES workerManager, promises, posted

\* mutations/useJarMutations: the cached jar of the query client, the
\* mutations started, and the mutation event last handled
VARIABLES jarCache, mutations, lastMutation

viewVars == <<selectedFruit, isModalOpen, showChart, Jar_selectedFruit>>

workerVars == <<workerManager, promises, posted>>

mutationVars == <<jarCache, mutations, lastMutation>>

restVars == <<viewVars, workerVars, mutationVars>>

searchVars == <<searchTerm, debouncedSearchTerm, termTimer, searchQuery,
                debouncedSearchQuery, queryTimer, sinceInput, keystrokes, lastSearch>>

fetchVars == <<loading, error, inFlight, triggered, lastFetch>>

vars == <<fruits, groupBy, groupedFruits, jarItems, last, searchVars, fetchVars, apiCall,
          restVars>>

(***************************************************************************)
(* Bounds of the model.                                                    *)
(***************************************************************************)
\* largest quantity a jar entry reaches in the explored runs
MaxQuantity == 3
\* longest batch handed to handleAddGroup
MaxGroupLen == 2
\* longest item sequence handed to groupFruitsByField
MaxFruits == 3

(***************************************************************************)
(* Strings of the item records.                                            *)
(***************************************************************************)
s_Apple == <<"A", "p", "p", "l", "e">>
s_Banana == <<"B", "a", "n", "a", "n", "a">>
s_Strawberry == <<"S", "t", "r", "a", "w", "b", "e", "r", "r", "y">>
s_Rosaceae == <<"R", "o", "s", "a", "c", "e", "a", "e">>
s_Musaceae == <<"M", "u", "s", "a", "c", "e", "a", "e">>
s_Rosales == <<"R", "o", "s", "a", "l", "e", "s">>
s_Zingiberales == <<"Z", "i", "n", "g", "i", "b", "e", "r", "a", "l", "e", "s">>
s_Malus == <<"M", "a", "l", "u", "s">>
s_Musa == <<"M", "u", "s", "a">>
s_Fragaria == <<"F", "r", "a", "g", "a", "r", "i", "a">>
\* labels an item source may also deliver: the type of the three
\* classification fields is string, nothing narrower
s_rosaceae == <<"r", "o", "s", "a", "c", "e", "a", "e">>
s_constructor == <<"c", "o", "n", "s", "t", "r", "u", "c", "t", "o", "r">>
s_10 == <<"1", "0">>
s_2 == <<"2">>
s_Kiwi == <<"K", "i", "w", "i">>
s_Plum == <<"P", "l", "u", "m">>
s_Lime == <<"L", "i", "m", "e">>
s_Fig == <<"F", "i", "g">>

AllFruitsLabel == <<"A", "l", "l", " ", "F", "r", "u", "i", "t", "s">>

(***************************************************************************)
(* Fruit records (types/Fruit).                                            *)
(***************************************************************************)
Fruit(id, name, family, order, genus, calories) ==
    [id |-> id, name |-> name, family |-> family, order |-> order,
     genus |-> genus, calories |-> calories]

Apple == Fruit(1, s_Apple, s_Rosaceae, s_Rosales, s_Malus, 52)
Banana == Fruit(2, s_Banana, s_Musaceae, s_Zingiberales, s_Musa, 89)
Strawberry == Fruit(3, s_Strawberry, s_Rosaceae, s_Rosales, s_Fragaria, 32)
\* the record of id 1 as a later fetch delivers it: same id, other calories
AppleRefetched == Fruit(1, s_Apple, s_Rosaceae, s_Rosales, s_Malus, 95)
Kiwi == Fruit(4, s_Kiwi, s_rosaceae, s_Rosales, s_Malus, 61)
Plum == Fruit(5, s_Plum, s_constructor, s_Rosales, s_constructor, 46)
Lime == Fruit(6, s_Lime, s_10, s_10, s_Musa, 30)
Fig == Fruit(7, s_Fig, s_2, s_Rosales, s_2, 74)

\* the fruits the jar handlers are called with
JarFruits == {Apple, Banana, Strawberry, AppleRefetched}

\* the records an item sequence is made of
Catalog == {Apple, Banana, Strawberry, Kiwi, Plum, Lime, Fig}

\* the ids handleRemoveFromJar and handleUpdateQuantity are called with;
\* 0 is the id of no fruit
FruitIds == {0} \cup {f.id : f \in JarFruits}

JarItem(fruit, quantity) == [fruit |-> fruit, quantity |-> quantity]

\* sequences over S of length at most n
SeqsUpTo(S, n) == UNION {[1..k -> S] : k \in 0..n}

(***************************************************************************)
(* utils/fruitUtils: the jar helpers.                                      *)
(***************************************************************************)
\* jarItems.map(item => item.fruit.id === fruit.id
\*                        ? { ...item, quantity: item.quantity + 1 } : item)
IncrementMatching(jarItems_, fruit) ==
    [i \in 1..Len(jarItems_) |->
        IF jarItems_[i].fruit.id = fruit.id
        THEN [jarItems_[i] EXCEPT !.quantity = @ + 1]
        ELSE jarItems_[i]]

addFruitToJar_ByObject(jarItems_, fruit) ==
    IF \E i \in 1..Len(jarItems_) : jarItems_[i].fruit = fruit
    THEN [i \in 1..Len(jarItems_) |->
            IF jarItems_[i].fruit = fruit
            THEN [jarItems_[i] EXCEPT !.quantity = @ + 1]
            ELSE jarItems_[i]]
    ELSE Append(jarItems_, JarItem(fruit, 1))

addFruitToJar(jarItems_, fruit) ==
    IF \E i \in 1..Len(jarItems_) : jarItems_[i].fruit.id = fruit.id
    THEN IncrementMatching(jarItems_, fruit)
    ELSE Append(jarItems_, JarItem(fruit, 1))

\* the forEach loop of addGroupToJar, from element i on
RECURSIVE addGroupLoop(_, _, _)
addGroupLoop(newJarItems, groupFruits, i) ==
    IF i > Len(groupFruits)
    THEN newJarItems
    ELSE addGroupLoop(addFruitToJar(newJarItems, groupFruits[i]), groupFruits, i + 1)

\* a loop that adds every fruit to the jar it was given, not to the jar so far
RECURSIVE addGroupLoop_Stale(_, _, _, _)
addGroupLoop_Stale(jarItems_, newJarItems, groupFruits, i) ==
    IF i > Len(groupFruits)
    THEN newJarItems
    ELSE addGroupLoop_Stale(jarItems_, addFruitToJar(jarItems_, groupFruits[i]),
                            groupFruits, i + 1)

addGroupToJar_Stale(jarItems_, groupFruits) ==
    addGroupLoop_Stale(jarItems_, jarItems_, groupFruits, 1)

addGroupToJar(jarItems_, groupFruits) == addGroupLoop(jarItems_, groupFruits, 1)

\* jarItems.reduce((total, item) => total + item.fruit.calories * item.quantity, 0)
RECURSIVE totalReduce(_, _, _)
totalReduce(jarItems_, total, i) ==
    IF i > Len(jarItems_)
    THEN total
    ELSE totalReduce(jarItems_,
                     total + (jarItems_[i].fruit.calories * jarItems_[i].quantity),
                     i + 1)

calculateTotalCalories_NoQuantity(jarItems_) ==
    LET RECURSIVE go(_, _)
        go(total, i) == IF i > Len(jarItems_) THEN total
                        ELSE go(total + jarItems_[i].fruit.calories, i + 1)
    IN go(0, 1)

calculateTotalCalories(jarItems_) == totalReduce(jarItems_, 0, 1)

(***************************************************************************)
(* hooks/useFruitsApp: the jar handlers.                                   *)
(***************************************************************************)
\* prev.filter(item => item.fruit.id !== fruitId)
RemoveUpdater_Inverted(prev, fruitId) ==
    SelectSeq(prev, LAMBDA item : item.fruit.id = fruitId)

RemoveUpdater(prev, fruitId) ==
    SelectSeq(prev, LAMBDA item : item.fruit.id # fruitId)

\* prev.map(item => item.fruit.id === fruitId ? { ...item, quantity } : item)
QuantityUpdater_Adds(prev, fruitId, quantity) ==
    [i \in 1..Len(prev) |->
        IF prev[i].fruit.id = fruitId
        THEN [prev[i] EXCEPT !.quantity = @ + quantity]
        ELSE prev[i]]

QuantityUpdater(prev, fruitId, quantity) ==
    [i \in 1..Len(prev) |->
        IF prev[i].fruit.id = fruitId
        THEN [prev[i] EXCEPT !.quantity = quantity]
        ELSE prev[i]]

\* the call a handler was last entered with, and the jar it found
Call(op, fruit, groupFruits, fruitId, quantity) ==
    [op |-> op, fruit |-> fruit, groupFruits |-> groupFruits,
     fruitId |-> fruitId, quantity |-> quantity, prev |-> jarItems]

NoFruit == Fruit(0, <<>>, <<>>, <<>>, <<>>, 0)

QuantitiesWithin(jar) == \A i \in 1..Len(jar) : jar[i].quantity <= MaxQuantity

HandleAddFruit(fruit) ==
    /\ QuantitiesWithin(addFruitToJar(jarItems, fruit))
    /\ jarItems' = addFruitToJar(jarItems, fruit)
    /\ last' = Call("handleAddFruit", fruit, <<>>, 0, 0)
    /\ UNCHANGED <<fruits, groupBy, groupedFruits, searchVars, fetchVars, apiCall, restVars>>

HandleAddGroup(groupFruits) ==
    /\ QuantitiesWithin(addGroupToJar(jarItems, groupFruits))
    /\ jarItems' = addGroupToJar(jarItems, groupFruits)
    /\ last' = Call("handleAddGroup", NoFruit, groupFruits, 0, 0)
    /\ UNCHANGED <<fruits, groupBy, groupedFruits, searchVars, fetchVars, apiCall, restVars>>

HandleRemoveFromJar(fruitId) ==
    /\ jarItems' = RemoveUpdater(jarItems, fruitId)
    /\ last' = Call("handleRemoveFromJar", NoFruit, <<>>, fruitId, 0)
    /\ UNCHANGED <<fruits, groupBy, groupedFruits, searchVars, fetchVars, apiCall, restVars>>

HandleUpdateQuantity_NoGuard(fruitId, quantity) ==
    /\ jarItems' = QuantityUpdater(jarItems, fruitId, quantity)
    /\ last' = Call("handleUpdateQuantity", NoFruit, <<>>, fruitId, quantity)
    /\ UNCHANGED <<fruits, groupBy, groupedFruits, searchVars, fetchVars, apiCall, restVars>>

HandleUpdateQuantity_NegativeOnly(fruitId, quantity) ==
    /\ jarItems' = IF quantity < 0
                   THEN RemoveUpdater(jarItems, fruitId)
                   ELSE QuantityUpdater(jarItems, fruitId, quantity)
    /\ last' = Call("handleUpdateQuantity", NoFruit, <<>>, fruitId, quantity)
    /\ UNCHANGED <<fruits, groupBy, groupedFruits, searchVars, fetchVars, apiCall, restVars>>

HandleUpdateQuantity(fruitId, quantity) ==
    /\ jarItems' = IF quantity <= 0
                   THEN RemoveUpdater(jarItems, fruitId)
                   ELSE QuantityUpdater(jarItems, fruitId, quantity)
    /\ last' = Call("handleUpdateQuantity", NoFruit, <<>>, fruitId, quantity)
    /\ UNCHANGED <<fruits, groupBy, groupedFruits, searchVars, fetchVars, apiCall, restVars>>

(***************************************************************************)
(* utils/fruitUtils: groupFruitsByField.  The result is a plain object,   *)
(* created by the literal {}: it has own properties, kept in creation     *)
(* order, and inherits the properties of Object.prototype.                 *)
(***************************************************************************)
GroupByOptions == {"None", "Family", "Order", "Genus"}

\* groupBy.toLowerCase() as keyof Fruit
FieldName(groupBy_) ==
    CASE groupBy_ = "Family" -> "family"
      [] groupBy_ = "Order" -> "order"
      [] groupBy_ = "Genus" -> "genus"
      [] OTHER -> "none"

\* the property names every object created by {} inherits
ObjectPrototypeKeys ==
    { s_constructor,
      <<"_", "_", "p", "r", "o", "t", "o", "_", "_">>,
      <<"t", "o", "S", "t", "r", "i", "n", "g">>,
      <<"v", "a", "l", "u", "e", "O", "f">>,
      <<"h", "a", "s", "O", "w", "n", "P", "r", "o", "p", "e", "r", "t", "y">>,
      <<"i", "s", "P", "r", "o", "t", "o", "t", "y", "p", "e", "O", "f">>,
      <<"p", "r", "o", "p", "e", "r", "t", "y", "I", "s", "E", "n", "u", "m", "e", "r", "a", "b", "l", "e">>,
      <<"t", "o", "L", "o", "c", "a", "l", "e", "S", "t", "r", "i", "n", "g">>,
      <<"_", "_", "d", "e", "f", "i", "n", "e", "G", "e", "t", "t", "e", "r", "_", "_">>,
      <<"_", "_", "d", "e", "f", "i", "n", "e", "S", "e", "t", "t", "e", "r", "_", "_">>,
      <<"_", "_", "l", "o", "o", "k", "u", "p", "G", "e", "t", "t", "e", "r", "_", "_">>,
      <<"_", "_", "l", "o", "o", "k", "u", "p", "S", "e", "t", "t", "e", "r", "_", "_">> }

\* {} : no own property
EmptyObject == [threw |-> FALSE, keys |-> <<>>, vals |-> [k \in {} |-> <<>>]]

\* the call threw a TypeError instead of returning an object
TypeError == [threw |-> TRUE, keys |-> <<>>, vals |-> [k \in {} |-> <<>>]]

HasOwn(obj, key) == \E i \in 1..Len(obj.keys) : obj.keys[i] = key

\* the callback of fruits.reduce, lines 9 to 14
GroupReducer(grouped, fruit, groupBy_) ==
    LET key == fruit[FieldName(groupBy_)] IN
    IF grouped.threw
    THEN grouped
    ELSE IF HasOwn(grouped, key)
    THEN \* grouped[key] is the array made earlier: push
         [grouped EXCEPT !.vals[key] = Append(@, fruit)]
    ELSE IF key \in ObjectPrototypeKeys
    THEN \* grouped[key] is the inherited value, truthy and no array:
         \* grouped[key].push is not a function
         TypeError
    ELSE \* grouped[key] is undefined: grouped[key] = []; push
         [grouped EXCEPT !.keys = Append(@, key),
                         !.vals = (key :> <<fruit>>) @@ @]

RECURSIVE groupReduce(_, _, _, _)
groupReduce(fruits_, groupBy_, grouped, i) ==
    IF i > Len(fruits_)
    THEN grouped
    ELSE groupReduce(fruits_, groupBy_, GroupReducer(grouped, fruits_[i], groupBy_), i + 1)

\* { 'All Fruits': fruits }
AllFruitsObject(fruits_) ==
    [threw |-> FALSE, keys |-> <<AllFruitsLabel>>, vals |-> (AllFruitsLabel :> fruits_)]

groupFruitsByField_EmptyObject(fruits_, groupBy_) ==
    IF groupBy_ = "None" /\ Len(fruits_) > 0
    THEN AllFruitsObject(fruits_)
    ELSE groupReduce(fruits_, groupBy_, EmptyObject, 1)

groupFruitsByField(fruits_, groupBy_) ==
    IF groupBy_ = "None"
    THEN AllFruitsObject(fruits_)
    ELSE groupReduce(fruits_, groupBy_, EmptyObject, 1)

(***************************************************************************)
(* Object.entries(grouped), as GroupedFruitList enumerates the groups:    *)
(* the own keys that are array indices come first, in ascending numeric   *)
(* order, then the other keys in creation order.                           *)
(***************************************************************************)
Digits == {"0", "1", "2", "3", "4", "5", "6", "7", "8", "9"}

DigitValue(c) ==
    CASE c = "0" -> 0 [] c = "1" -> 1 [] c = "2" -> 2 [] c = "3" -> 3
      [] c = "4" -> 4 [] c = "5" -> 5 [] c = "6" -> 6 [] c = "7" -> 7
      [] c = "8" -> 8 [] c = "9" -> 9

\* a <= b for digit strings without leading zeros: by length, then digit by digit
RECURSIVE NumericLeq(_, _)
NumericLeq(a, b) ==
    IF Len(a) # Len(b) THEN Len(a) < Len(b)
    ELSE IF Len(a) = 0 THEN TRUE
    ELSE IF a[1] # b[1] THEN DigitValue(a[1]) < DigitValue(b[1])
    ELSE NumericLeq(Tail(a), Tail(b))

\* the largest array index, 2^32 - 2
MaxArrayIndex == <<"4", "2", "9", "4", "9", "6", "7", "2", "9", "4">>

\* a canonical numeric string of an integer in 0 .. 2^32 - 2
IsArrayIndex(key) ==
    /\ Len(key) > 0
    /\ \A i \in 1..Len(key) : key[i] \in Digits
    /\ (Len(key) > 1 => key[1] # "0")
    /\ NumericLeq(key, MaxArrayIndex)

RECURSIVE Ascending(_)
Ascending(keys) ==
    IF keys = {} THEN <<>>
    ELSE LET least == CHOOSE k \in keys : \A o \in keys : NumericLeq(k, o)
         IN <<least>> \o Ascending(keys \ {least})

OwnKeys(obj) ==
    Ascending({obj.keys[i] : i \in {j \in 1..Len(obj.keys) : IsArrayIndex(obj.keys[j])}})
    \o SelectSeq(obj.keys, LAMBDA k : ~IsArrayIndex(k))

ObjectEntries(obj) ==
    [i \in 1..Len(OwnKeys(obj)) |-> <<OwnKeys(obj)[i], obj.vals[OwnKeys(obj)[i]]>>]

(***************************************************************************)
(* useFruitsApp: filteredFruits (lines 42 to 54), with the string methods *)
(* it calls.                                                               *)
(***************************************************************************)
UpperCase == <<"A", "B", "C", "D", "E", "F", "G", "H", "I", "J", "K", "L", "M",
               "N", "O", "P", "Q", "R", "S", "T", "U", "V", "W", "X", "Y", "Z">>

LowerCase == <<"a", "b", "c", "d", "e", "f", "g", "h", "i", "j", "k", "l", "m",
               "n", "o", "p", "q", "r", "s", "t", "u", "v", "w", "x", "y", "z">>

\* String.prototype.toLowerCase, on the letters A to Z
toLowerCase_Identity(str) == str

toLowerCase(str) ==
    [i \in 1..Len(str) |->
        IF \E k \in 1..Len(UpperCase) : UpperCase[k] = str[i]
        THEN LowerCase[CHOOSE k \in 1..Len(UpperCase) : UpperCase[k] = str[i]]
        ELSE str[i]]

\* String.prototype.includes
includes(str, searchString) ==
    \E k \in 0..(Len(str) - Len(searchString)) :
        SubSeq(str, k + 1, k + Len(searchString)) = searchString

\* the white space String.prototype.trim strips, as far as the queries of
\* the model hold any
WhiteSpace == {" ", "\t"}

RECURSIVE trimStart(_)
trimStart(str) ==
    IF Len(str) > 0 /\ str[1] \in WhiteSpace THEN trimStart(Tail(str)) ELSE str

RECURSIVE trimEnd(_)
trimEnd(str) ==
    IF Len(str) > 0 /\ str[Len(str)] \in WhiteSpace
    THEN trimEnd(SubSeq(str, 1, Len(str) - 1))
    ELSE str

trim_Nothing(str) == str

trim(str) == trimEnd(trimStart(str))

\* the callback of fruits.filter, lines 48 to 53
MatchesQuery(fruit, query) ==
    \/ includes(toLowerCase(fruit.name), query)
    \/ includes(toLowerCase(fruit.family), query)
    \/ includes(toLowerCase(fruit.genus), query)
    \/ includes(toLowerCase(fruit.order), query)

filteredFruits(fruits_, debouncedSearchQuery_) ==
    IF trim(debouncedSearchQuery_) = <<>>
    THEN fruits_
    ELSE LET query == toLowerCase(debouncedSearchQuery_)
         IN SelectSeq(fruits_, LAMBDA fruit : MatchesQuery(fruit, query))

(***************************************************************************)
(* Initial values of the search, fetch and api state.                      *)
(***************************************************************************)
\* the delay both useDebounce calls are given
Delay == 300

\* no timeout is pending
NoTimer == [active |-> FALSE, value |-> <<>>, remaining |-> 0]

NoSearchEvent == [op |-> "mount", debouncedSearchTerm |-> <<>>,
                  debouncedSearchQuery |-> <<>>, keystrokes |-> 0]

\* SearchInput and useFruitsApp as constructed (useState('') in both), the
\* text untouched for longer than any delay
SearchMounted ==
    /\ searchTerm = <<>>
    /\ debouncedSearchTerm = <<>>
    /\ termTimer = NoTimer
    /\ searchQuery = <<>>
    /\ debouncedSearchQuery = <<>>
    /\ queryTimer = NoTimer
    /\ sinceInput = 3 * Delay
    /\ keystrokes = 0
    /\ lastSearch = NoSearchEvent

\* useState<string | null>(null)
Null == [isNull |-> TRUE, message |-> ""]

ErrorMessage(message) == [isNull |-> FALSE, message |-> message]

\* what a fetch can change or must leave alone, as it was before the event
Snapshot ==
    [fruits |-> fruits, jarItems |-> jarItems, groupBy |-> groupBy,
     searchQuery |-> searchQuery, error |-> error]

NoSnapshot ==
    [fruits |-> <<>>, jarItems |-> <<>>, groupBy |-> "None",
     searchQuery |-> <<>>, error |-> Null]

\* no promise was rejected
NoThrown == [isError |-> FALSE, message |-> ""]

NoFetchEvent ==
    [op |-> "mount", id |-> 1, before |-> NoSnapshot, data |-> <<>>,
     thrown |-> NoThrown]

\* useFruitsApp as constructed, after the effect of line 37 called fetchFruits
FetchMounted ==
    /\ loading = TRUE
    /\ error = Null
    /\ inFlight = {1}
    /\ triggered = 1
    /\ lastFetch = NoFetchEvent

\* the page after the fetch of the mount resolved: nothing pending, no error
FetchSettled ==
    /\ loading = FALSE
    /\ error = Null
    /\ inFlight = {}
    /\ triggered = 1
    /\ lastFetch = NoFetchEvent

\* getFruits was not called yet
ApiIdle == apiCall = [op |-> "none"]

\* null of a number | null state
NullId == 0

\* useState(null), useState(false), useState(false) of useFruitsApp and
\* useState(null) of Jar
ViewInit ==
    /\ selectedFruit = NoFruit
    /\ isModalOpen = FALSE
    /\ showChart = FALSE
    /\ Jar_selectedFruit = NullId

\* the WorkerManager singleton constructed with a worker, no request made
WorkerIdle ==
    /\ workerManager = [worker |-> "Worker", isSupported |-> TRUE,
                        pendingRequests |-> {}]
    /\ promises = <<>>
    /\ posted = {}

\* getQueryData of a key nothing was stored under
Undefined == [defined |-> FALSE, items |-> <<>>]

NoMutationEvent == [op |-> "none", index |-> 0]

\* the query client before any jar mutation
CacheIdle ==
    /\ jarCache = Undefined
    /\ mutations = <<>>
    /\ lastMutation = NoMutationEvent

RestInit == ViewInit /\ WorkerIdle /\ CacheIdle

(***************************************************************************)
(* useFruitsApp: setGroupBy, and the render that follows it (line 102).    *)
(***************************************************************************)
SetGroupBy(g) ==
    /\ groupBy' = g
    /\ groupedFruits' = groupFruitsByField(filteredFruits(fruits, debouncedSearchQuery), g)
    /\ last' = Call("setGroupBy", NoFruit, <<>>, 0, 0)
    /\ UNCHANGED <<fruits, jarItems, searchVars, fetchVars, apiCall, restVars>>

(***************************************************************************)
(* Specifications.                                                         *)
(***************************************************************************)
\* the state useFruitsApp is constructed with (lines 8 to 15)
Init ==
    /\ fruits = <<>>
    /\ jarItems = <<>>
    /\ groupBy = "None"
    /\ groupedFruits = groupFruitsByField(<<>>, "None")
    /\ last = [op |-> "mount", fruit |-> NoFruit, groupFruits |-> <<>>,
               fruitId |-> 0, quantity |-> 0, prev |-> <<>>]
    /\ SearchMounted
    /\ FetchMounted
    /\ ApiIdle
    /\ RestInit

Next ==
    \/ \E fruit \in JarFruits : HandleAddFruit(fruit)
    \/ \E groupFruits \in SeqsUpTo(JarFruits, MaxGroupLen) : HandleAddGroup(groupFruits)
    \/ \E fruitId \in FruitIds : HandleRemoveFromJar(fruitId)
    \/ \E fruitId \in FruitIds, quantity \in -1..MaxQuantity :
          HandleUpdateQuantity(fruitId, quantity)

\* the jar handlers of useFruitsApp, called in any order with any argument
Spec == Init /\ [][Next]_vars

\* groupFruitsByField over every item sequence of the catalog
InitGroup ==
    /\ fruits \in SeqsUpTo(Catalog, MaxFruits)
    /\ jarItems = <<>>
    /\ groupBy = "None"
    /\ groupedFruits = groupFruitsByField(fruits, "None")
    /\ last = [op |-> "mount", fruit |-> NoFruit, groupFruits |-> <<>>,
               fruitId |-> 0, quantity |-> 0, prev |-> <<>>]
    /\ SearchMounted
    /\ FetchSettled
    /\ ApiIdle
    /\ RestInit

NextGroup == \E g \in GroupByOptions : SetGroupBy(g)

SpecGroup == InitGroup /\ [][NextGroup]_vars

(***************************************************************************)
(* Properties of the jar handlers, checked under Spec.                     *)
(***************************************************************************)
\* the positions of jar whose entry has the fruit id
PositionsOf(jar, id) == {i \in 1..Len(jar) : jar[i].fruit.id = id}

\* the quantity the jar holds of the fruit id, 0 when it holds none
RECURSIVE QuantitySum(_, _)
QuantitySum(jar, S) ==
    IF S = {} THEN 0
    ELSE LET i == CHOOSE x \in S : TRUE
         IN jar[i].quantity + QuantitySum(jar, S \ {i})

QuantityOf(jar, id) == QuantitySum(jar, PositionsOf(jar, id))

\* how often the fruit id occurs in the sequence xs of fruits
Occurrences(xs, id) == Cardinality({i \in 1..Len(xs) : xs[i].id = id})

\* jar without its position k
WithoutPosition(jar, k) == SubSeq(jar, 1, k - 1) \o SubSeq(jar, k + 1, Len(jar))

\* C1: after any sequence of handleAddFruit, handleAddGroup,
\* handleRemoveFromJar and handleUpdateQuantity calls from the empty jar, the
\* jar holds at most one entry per fruit id and every quantity is at least 1.
C1_OneEntryPerIdQuantityPositive ==
    /\ \A i, j \in 1..Len(jarItems) :
          jarItems[i].fruit.id = jarItems[j].fruit.id => i = j
    /\ \A i \in 1..Len(jarItems) : jarItems[i].quantity >= 1

\* a full jar whose entry was just given another quantity
C1_Witness ==
    /\ last.op = "handleUpdateQuantity"
    /\ last.quantity >= 2
    /\ Len(jarItems) = 3
    /\ QuantityOf(jarItems, last.fruitId) = last.quantity
    /\ QuantityOf(last.prev, last.fruitId) # last.quantity

\* C2: addFruitToJar(jar, item) increases by exactly 1 the quantity of the one
\* entry with item.id and keeps length, order and every other entry; when no
\* entry has item.id it appends (item, 1) at the end.  Adding the same item
\* to the jar that holds it once, alone, yields the single entry (item, 2).
C2_AddOne ==
    last.op = "handleAddFruit" =>
        LET prev == last.prev
            item == last.fruit
        IN /\ IF PositionsOf(prev, item.id) # {}
              THEN /\ Cardinality(PositionsOf(prev, item.id)) = 1
                   /\ Len(jarItems) = Len(prev)
                   /\ \A i \in 1..Len(prev) :
                         /\ jarItems[i].fruit = prev[i].fruit
                         /\ jarItems[i].quantity =
                               IF prev[i].fruit.id = item.id
                               THEN prev[i].quantity + 1
                               ELSE prev[i].quantity
              ELSE jarItems = Append(prev, [fruit |-> item, quantity |-> 1])
           /\ prev = <<>> => jarItems = <<[fruit |-> item, quantity |-> 1]>>
           /\ prev = <<[fruit |-> item, quantity |-> 1]>> =>
                 jarItems = <<[fruit |-> item, quantity |-> 2]>>

\* the second add-one of Apple from the empty jar
C2_Witness ==
    /\ last.op = "handleAddFruit"
    /\ last.fruit = Apple
    /\ last.prev = <<[fruit |-> Apple, quantity |-> 1]>>
    /\ jarItems = <<[fruit |-> Apple, quantity |-> 2]>>

\* add-one applied to the first n elements of xs, one after the other
RECURSIVE AddOneEach(_, _, _)
AddOneEach(jar, xs, n) ==
    IF n = 0 THEN jar ELSE addFruitToJar(AddOneEach(jar, xs, n - 1), xs[n])

\* C3: addGroupToJar(jar, xs) is the jar obtained by add-one of each element
\* of xs in sequence order, repeated elements included: every fruit id gains
\* as many units as xs holds fruits of that id, and the total after
\* add-many([a, b]) is the total after add-one(a) then add-one(b).
C3_AddManyIsAddOneEach ==
    last.op = "handleAddGroup" =>
        LET prev == last.prev
            xs == last.groupFruits
        IN /\ jarItems = AddOneEach(prev, xs, Len(xs))
           /\ \A id \in FruitIds :
                 QuantityOf(jarItems, id) = QuantityOf(prev, id) + Occurrences(xs, id)
           /\ Len(xs) = 0 => jarItems = prev
           /\ Len(xs) = 2 =>
                 calculateTotalCalories(jarItems) =
                     calculateTotalCalories(
                         addFruitToJar(addFruitToJar(prev, xs[1]), xs[2]))

\* a batch holding the same fruit twice, added to a jar that holds another
C3_Witness ==
    /\ last.op = "handleAddGroup"
    /\ Len(last.groupFruits) = 2
    /\ last.groupFruits[1] = last.groupFruits[2]
    /\ Len(last.prev) = 1
    /\ Len(jarItems) = 2
    /\ jarItems[2].quantity = 2

\* C4: for every quantity <= 0, handleUpdateQuantity(id, quantity) leaves the
\* jar as handleRemoveFromJar(id) leaves it.
C4_NonPositiveQuantityRemoves ==
    (last.op = "handleUpdateQuantity" /\ last.quantity <= 0) =>
        /\ jarItems = RemoveUpdater(last.prev, last.fruitId)
        /\ PositionsOf(jarItems, last.fruitId) = {}
        /\ Len(jarItems) = Len(last.prev) - Cardinality(PositionsOf(last.prev, last.fruitId))

\* set-quantity 0 of an entry that other entries surround
C4_Witness ==
    /\ last.op = "handleUpdateQuantity"
    /\ last.quantity = 0
    /\ Len(last.prev) = 3
    /\ last.prev[2].fruit.id = last.fruitId
    /\ jarItems = <<last.prev[1], last.prev[3]>>

\* C5: handleRemoveFromJar(id) deletes the entry with that id and leaves the
\* other entries, their quantities and their relative order; with no such
\* entry the jar is unchanged.
C5_RemoveFrame ==
    last.op = "handleRemoveFromJar" =>
        LET prev == last.prev
            at == PositionsOf(prev, last.fruitId)
        IN IF at = {}
           THEN jarItems = prev
           ELSE \E k \in at : at = {k} /\ jarItems = WithoutPosition(prev, k)

\* the middle entry of three is removed
C5_Witness ==
    /\ last.op = "handleRemoveFromJar"
    /\ Len(last.prev) = 3
    /\ last.prev[2].fruit.id = last.fruitId
    /\ jarItems = <<last.prev[1], last.prev[3]>>

\* C6: handleUpdateQuantity(id, q) with q >= 1 sets the quantity of the entry
\* with that id to q and leaves the other entries and the order; with no such
\* entry the jar is unchanged and no entry is created.
C6_SetQuantity ==
    (last.op = "handleUpdateQuantity" /\ last.quantity >= 1) =>
        LET prev == last.prev IN
        /\ Len(jarItems) = Len(prev)
        /\ \A i \in 1..Len(prev) :
              /\ jarItems[i].fruit = prev[i].fruit
              /\ jarItems[i].quantity =
                    IF prev[i].fruit.id = last.fruitId
                    THEN last.quantity
                    ELSE prev[i].quantity
        /\ PositionsOf(prev, last.fruitId) = {} => jarItems = prev

\* the quantity of one of two entries is replaced by another one
C6_Witness ==
    /\ last.op = "handleUpdateQuantity"
    /\ last.quantity = 3
    /\ Len(last.prev) = 2
    /\ last.prev[1].fruit.id = last.fruitId
    /\ last.prev[1].quantity = 1
    /\ jarItems[1].quantity = 3
    /\ jarItems[2] = last.prev[2]

\* the sum of calories times quantity over the positions S of jar
RECURSIVE EnergySum(_, _)
EnergySum(jar, S) ==
    IF S = {} THEN 0
    ELSE LET i == CHOOSE x \in S : TRUE
         IN (jar[i].fruit.calories * jar[i].quantity) + EnergySum(jar, S \ {i})

\* C10: calculateTotalCalories(jar) is the sum over all entries of
\* entry.fruit.calories times entry.quantity, and 0 for the empty jar.
C10_TotalIsWeightedSum ==
    /\ calculateTotalCalories(jarItems) = EnergySum(jarItems, 1..Len(jarItems))
    /\ jarItems = <<>> => calculateTotalCalories(jarItems) = 0

\* two Apples and one Banana: 52 * 2 + 89 * 1
C10_Witness ==
    /\ jarItems = <<[fruit |-> Apple, quantity |-> 2], [fruit |-> Banana, quantity |-> 1]>>
    /\ calculateTotalCalories(jarItems) = 193

(***************************************************************************)
(* Properties of groupFruitsByField, checked under SpecGroup.              *)
(***************************************************************************)
\* how often the record f occurs in the sequence xs
CountIn(xs, f) == Cardinality({i \in 1..Len(xs) : xs[i] = f})

\* the groups of an object, concatenated in the order of Object.entries
RECURSIVE ConcatGroups(_, _)
ConcatGroups(entries, n) ==
    IF n = 0 THEN <<>> ELSE ConcatGroups(entries, n - 1) \o entries[n][2]

\* the values of the field in xs, each kept where it appears first
FirstAppearances(xs, field) ==
    LET firsts == {i \in 1..Len(xs) : \A j \in 1..(i - 1) : xs[j][field] # xs[i][field]}
        RECURSIVE upTo(_)
        upTo(i) == IF i = 0 THEN <<>>
                   ELSE IF i \in firsts THEN Append(upTo(i - 1), xs[i][field])
                   ELSE upTo(i - 1)
    IN upTo(Len(xs))

\* C7: for groupBy in {Family, Order, Genus}, groupFruitsByField(S, groupBy)
\* is a partition of S: every item of S is in exactly one group, the group
\* labelled with the item's value of the field, and the groups concatenated
\* hold exactly the items of S, none lost and none duplicated.
C7_GroupingIsPartition ==
    groupBy # "None" =>
        LET field == FieldName(groupBy)
            entries == ObjectEntries(groupedFruits)
            all == ConcatGroups(entries, Len(entries))
        IN /\ ~groupedFruits.threw
           /\ Len(all) = Len(fruits)
           /\ \A f \in Catalog : CountIn(all, f) = CountIn(fruits, f)
           /\ \A n \in 1..Len(entries) :
                 \A i \in 1..Len(entries[n][2]) :
                    entries[n][2][i][field] = entries[n][1]
           /\ \A m, n \in 1..Len(entries) : entries[m][1] = entries[n][1] => m = n

\* C8: for every S, the empty one included, groupFruitsByField(S, 'None') has
\* exactly one key, the label 'All Fruits', mapped to S in its order.
C8_NoneIsOneGroup ==
    groupBy = "None" =>
        /\ ~groupedFruits.threw
        /\ groupedFruits.keys = <<AllFruitsLabel>>
        /\ ObjectEntries(groupedFruits) = << <<AllFruitsLabel, fruits>> >>

\* grouping switched back to None over the empty item sequence
C8_Witness ==
    /\ last.op = "setGroupBy"
    /\ groupBy = "None"
    /\ fruits = <<>>
    /\ Len(ObjectEntries(groupedFruits)) = 1

\* C9: for groupBy other than None, the groups that groupFruitsByField(S,
\* groupBy) returns are enumerated in the order in which their labels first
\* appear in S, and inside each group the items keep their order of S.
C9_GroupsInFirstAppearanceOrder ==
    (groupBy # "None" /\ ~groupedFruits.threw) =>
        LET field == FieldName(groupBy)
            entries == ObjectEntries(groupedFruits)
        IN /\ [n \in 1..Len(entries) |-> entries[n][1]] = FirstAppearances(fruits, field)
           /\ \A n \in 1..Len(entries) :
                 entries[n][2] = SelectSeq(fruits, LAMBDA f : f[field] = entries[n][1])

(***************************************************************************)
(* components/Jar: the totals of the Jar component and the data of the    *)
(* pie chart of JarChart.                                                  *)
(***************************************************************************)
\* jarItems.reduce((sum, item) => sum + item.quantity, 0)
RECURSIVE itemsReduce(_, _, _)
itemsReduce(jarItems_, sum, i) ==
    IF i > Len(jarItems_)
    THEN sum
    ELSE itemsReduce(jarItems_, sum + jarItems_[i].quantity, i + 1)

totalItems_Length(jarItems_) == Len(jarItems_)

totalItems(jarItems_) == itemsReduce(jarItems_, 0, 1)

\* COLORS.length
NumColors == 6

\* jarItems.map((item, index) => ({ name, value, quantity, color, fruitId }));
\* the color is kept as its index in COLORS
chartData(jarItems_) ==
    [i \in 1..Len(jarItems_) |->
        [name |-> jarItems_[i].fruit.name,
         value |-> jarItems_[i].fruit.calories * jarItems_[i].quantity,
         quantity |-> jarItems_[i].quantity,
         color |-> (i - 1) % NumColors,
         fruitId |-> jarItems_[i].fruit.id]]

\* longest jarItems sequence handed to JarChart
MaxChartItems == 3

\* the jarItems JarChart may be rendered with: any entries, in any order,
\* several of them for one fruit included (as in the mockJarItems of its tests)
ChartFruits == {Apple, Banana, Strawberry}

ChartJars == SeqsUpTo({JarItem(f, q) : f \in ChartFruits, q \in 1..2}, MaxChartItems)

\* JarChart is rendered with the jarItems given
RenderJarChart(items) ==
    /\ jarItems' = items
    /\ last' = [op |-> "renderJarChart", fruit |-> NoFruit, groupFruits |-> <<>>,
                fruitId |-> 0, quantity |-> 0, prev |-> <<>>]
    /\ UNCHANGED <<fruits, groupBy, groupedFruits, searchVars, fetchVars, apiCall, restVars>>

InitChart ==
    /\ fruits = <<>>
    /\ jarItems \in ChartJars
    /\ groupBy = "None"
    /\ groupedFruits = groupFruitsByField(<<>>, "None")
    /\ last = [op |-> "mount", fruit |-> NoFruit, groupFruits |-> <<>>,
               fruitId |-> 0, quantity |-> 0, prev |-> <<>>]
    /\ SearchMounted
    /\ FetchSettled
    /\ ApiIdle
    /\ RestInit

NextChart == \E items \in ChartJars : RenderJarChart(items)

\* JarChart over every jarItems sequence
SpecChart == InitChart /\ [][NextChart]_vars

\* C11: the entry count the Jar component displays is the sum of the
\* quantities of the jar entries; add-one(Apple) twice and add-one(Banana)
\* from the empty jar give [(Apple, 2), (Banana, 1)], total 193, count 3.
C11_EntryCountIsQuantitySum ==
    /\ totalItems(jarItems) = QuantitySum(jarItems, 1..Len(jarItems))
    /\ (/\ last.op = "handleAddFruit"
        /\ last.fruit = Banana
        /\ last.prev = <<[fruit |-> Apple, quantity |-> 2]>>) =>
           /\ jarItems = <<[fruit |-> Apple, quantity |-> 2],
                           [fruit |-> Banana, quantity |-> 1]>>
           /\ calculateTotalCalories(jarItems) = 193
           /\ totalItems(jarItems) = 3

\* the third add-one of the scenario
C11_Witness ==
    /\ last.op = "handleAddFruit"
    /\ last.fruit = Banana
    /\ last.prev = <<[fruit |-> Apple, quantity |-> 2]>>
    /\ totalItems(jarItems) = 3

\* C12: for every jarItems given to JarChart, several entries with one fruit
\* id included, the chart data has exactly one segment per distinct fruit id,
\* and its value is the fruit's calories times the sum of the quantities of
\* all entries with that id.
C12_OneSegmentPerFruitId ==
    last.op = "renderJarChart" =>
        LET data == chartData(jarItems) IN
        /\ \A i \in 1..Len(data) : PositionsOf(jarItems, data[i].fruitId) # {}
        /\ \A k \in 1..Len(jarItems) :
              LET id == jarItems[k].fruit.id
                  segments == {i \in 1..Len(data) : data[i].fruitId = id}
              IN /\ Cardinality(segments) = 1
                 /\ \A i \in segments :
                       data[i].value = jarItems[k].fruit.calories * QuantityOf(jarItems, id)

(***************************************************************************)
(* filteredFruits over every item sequence and a set of queries.           *)
(***************************************************************************)
s_an == <<"a", "n">>
s_AN == <<"A", "N">>
s_ros == <<"r", "o", "s">>
s_Mu == <<"M", "u">>

\* the queries the filter is applied with: empty, white space only, lower
\* and upper case, with a leading blank, matching a family or a genus only
FilterQueries ==
    {<<>>, <<" ">>, <<" ", "\t">>, s_an, s_AN, <<" ">> \o s_an, s_ros, s_Mu}

\* the debounced query becomes q (the text was typed and both delays
\* elapsed), and useFruitsApp renders: filteredFruits, then groupedFruits
ApplyQuery(q) ==
    /\ searchTerm' = q
    /\ debouncedSearchTerm' = q
    /\ searchQuery' = q
    /\ debouncedSearchQuery' = q
    /\ groupedFruits' = groupFruitsByField(filteredFruits(fruits, q), groupBy)
    /\ lastSearch' = [NoSearchEvent EXCEPT !.op = "applyQuery"]
    /\ UNCHANGED <<fruits, groupBy, jarItems, last, termTimer, queryTimer,
                   sinceInput, keystrokes, fetchVars, apiCall, restVars>>

\* the items the filter is applied to
FilterCatalog == {Apple, Banana, Strawberry, Kiwi}

InitFilter ==
    /\ fruits \in SeqsUpTo(FilterCatalog, MaxFruits)
    /\ jarItems = <<>>
    /\ groupBy = "None"
    /\ groupedFruits = groupFruitsByField(fruits, "None")
    /\ last = [op |-> "mount", fruit |-> NoFruit, groupFruits |-> <<>>,
               fruitId |-> 0, quantity |-> 0, prev |-> <<>>]
    /\ SearchMounted
    /\ FetchSettled
    /\ ApiIdle
    /\ RestInit

NextFilter == \E q \in FilterQueries : ApplyQuery(q)

SpecFilter == InitFilter /\ [][NextFilter]_vars

\* d is the lower-case form of the character c
IsLowerOf(c, d) ==
    IF \E k \in 1..26 : UpperCase[k] = c
    THEN \E k \in 1..26 : UpperCase[k] = c /\ LowerCase[k] = d
    ELSE d = c

\* q occurs in str when case is ignored
OccursIgnoringCase(q, str) ==
    \E start \in 1..(Len(str) + 1) :
        /\ start + Len(q) - 1 <= Len(str)
        /\ \A k \in 1..Len(q) :
              \E d \in {LowerCase[x] : x \in 1..26} \cup {q[k], str[start + k - 1]} :
                 IsLowerOf(q[k], d) /\ IsLowerOf(str[start + k - 1], d)

Wanted(fruit, q) ==
    \/ OccursIgnoringCase(q, fruit.name)
    \/ OccursIgnoringCase(q, fruit.family)
    \/ OccursIgnoringCase(q, fruit.genus)
    \/ OccursIgnoringCase(q, fruit.order)

\* the wanted items among the first n of S, in the order of S
RECURSIVE WantedOf(_, _, _)
WantedOf(S, q, n) ==
    IF n = 0 THEN <<>>
    ELSE IF Wanted(S[n], q) THEN Append(WantedOf(S, q, n - 1), S[n])
    ELSE WantedOf(S, q, n - 1)

IsBlank(q) == \A i \in 1..Len(q) : q[i] \in {" ", "\t"}

\* C13: for every applied query that is not empty after trimming, the
\* filtered sequence is the subsequence of S, in the order of S, of the items
\* whose lowercased name, family, genus or order contains the lowercased
\* query: no matching item dropped, no other item kept.
C13_FilterIsMatchingSubsequence ==
    ~IsBlank(debouncedSearchQuery) =>
        LET shown == filteredFruits(fruits, debouncedSearchQuery) IN
        /\ shown = WantedOf(fruits, debouncedSearchQuery, Len(fruits))
        /\ (fruits = <<Apple, Banana>> /\ debouncedSearchQuery \in {s_an, s_AN}) =>
              shown = <<Banana>>

\* "AN" typed over Apple, Banana finds Banana
C13_Witness ==
    /\ lastSearch.op = "applyQuery"
    /\ debouncedSearchQuery = s_AN
    /\ fruits = <<Apple, Banana>>
    /\ filteredFruits(fruits, debouncedSearchQuery) = <<Banana>>

\* C14: when the applied query is empty or white space only, the filtered
\* sequence is S itself, same items in the same order.
C14_BlankQueryKeepsAll ==
    IsBlank(debouncedSearchQuery) =>
        filteredFruits(fruits, debouncedSearchQuery) = fruits

\* a query of a blank and a tab over three items
C14_Witness ==
    /\ lastSearch.op = "applyQuery"
    /\ debouncedSearchQuery = <<" ", "\t">>
    /\ Len(fruits) = 3
    /\ filteredFruits(fruits, debouncedSearchQuery) = fruits

(***************************************************************************)
(* The search box: SearchInput debounces the typed text and reports it     *)
(* with onSearch; useFruitsApp debounces the reported query again and      *)
(* filters with the result.  Time advances in steps of a third of Delay.   *)
(***************************************************************************)
MaxKeystrokes == 2

TimeStep == Delay \div 3
MaxSince == 3 * Delay

s_a == <<"a">>

\* the texts the input can hold
TypedTexts == {<<>>, s_a, s_an}

\* useDebounce's effect on a change of its input: the pending timeout is
\* cleared and one of the full delay is set for the new value
StartTimer_KeepsDeadline(timer, value) ==
    IF timer.active THEN [timer EXCEPT !.value = value]
    ELSE [active |-> TRUE, value |-> value, remaining |-> Delay]

StartTimer(timer, value) ==
    [active |-> TRUE, value |-> value, remaining |-> Delay]

\* the effect runs only when the input of useDebounce changed
OnInputChange(timer, old, new) ==
    IF new = old THEN timer ELSE StartTimer(timer, new)

Due(timer) == timer.active /\ timer.remaining = 0

Elapse(timer) ==
    IF timer.active THEN [timer EXCEPT !.remaining = @ - TimeStep] ELSE timer

SearchEvent(op) ==
    [op |-> op, debouncedSearchTerm |-> debouncedSearchTerm,
     debouncedSearchQuery |-> debouncedSearchQuery, keystrokes |-> keystrokes]

\* setSearchTerm(text) by a handler of SearchInput
SetSearchTerm(text) ==
    /\ searchTerm' = text
    /\ termTimer' = OnInputChange(termTimer, searchTerm, text)
    /\ sinceInput' = IF text = searchTerm THEN sinceInput ELSE 0
    /\ keystrokes' = IF text = searchTerm THEN keystrokes ELSE keystrokes + 1

\* handleSearch(query) of useFruitsApp: setSearchQuery(query)
handleSearch(query) ==
    /\ searchQuery' = query
    /\ queryTimer' = OnInputChange(queryTimer, searchQuery, query)

\* handleSearchChange: the user edits the text
Type(text) ==
    /\ keystrokes < MaxKeystrokes
    /\ text # searchTerm
    /\ SetSearchTerm(text)
    /\ lastSearch' = SearchEvent("type")
    /\ UNCHANGED <<fruits, groupBy, groupedFruits, jarItems, last,
                   debouncedSearchTerm, searchQuery, debouncedSearchQuery,
                   queryTimer, fetchVars, apiCall, restVars>>

\* handleKeyDown with Escape
Escape ==
    /\ keystrokes < MaxKeystrokes
    /\ SetSearchTerm(<<>>)
    /\ handleSearch(<<>>)
    /\ lastSearch' = SearchEvent("escape")
    /\ UNCHANGED <<fruits, groupBy, groupedFruits, jarItems, last,
                   debouncedSearchTerm, debouncedSearchQuery, fetchVars, apiCall, restVars>>

\* the clear button, rendered while searchTerm is not empty
ClearButton ==
    /\ keystrokes < MaxKeystrokes
    /\ searchTerm # <<>>
    /\ SetSearchTerm(<<>>)
    /\ handleSearch(<<>>)
    /\ lastSearch' = SearchEvent("clear")
    /\ UNCHANGED <<fruits, groupBy, groupedFruits, jarItems, last,
                   debouncedSearchTerm, debouncedSearchQuery, fetchVars, apiCall, restVars>>

\* the timeout of SearchInput's useDebounce: debouncedSearchTerm changes and
\* the effect calls onSearch(debouncedSearchTerm)
TermTimerFires ==
    /\ Due(termTimer)
    /\ debouncedSearchTerm' = termTimer.value
    /\ termTimer' = NoTimer
    /\ IF termTimer.value # debouncedSearchTerm
       THEN handleSearch(termTimer.value)
       ELSE UNCHANGED <<searchQuery, queryTimer, restVars>>
    /\ keystrokes' = 0
    /\ lastSearch' = SearchEvent("termTimerFired")
    /\ UNCHANGED <<fruits, groupBy, groupedFruits, jarItems, last, searchTerm,
                   debouncedSearchQuery, sinceInput, fetchVars, apiCall, restVars>>

\* the timeout of useFruitsApp's useDebounce: debouncedSearchQuery changes,
\* filteredFruits and groupedFruits are computed again
QueryTimerFires ==
    /\ Due(queryTimer)
    /\ debouncedSearchQuery' = queryTimer.value
    /\ queryTimer' = NoTimer
    /\ groupedFruits' =
          groupFruitsByField(filteredFruits(fruits, queryTimer.value), groupBy)
    /\ lastSearch' = SearchEvent("queryTimerFired")
    /\ UNCHANGED <<fruits, groupBy, jarItems, last, searchTerm,
                   debouncedSearchTerm, termTimer, searchQuery, sinceInput,
                   keystrokes, fetchVars, apiCall, restVars>>

\* time passes; a timeout that is due runs first
Tick ==
    /\ ~Due(termTimer)
    /\ ~Due(queryTimer)
    /\ termTimer' = Elapse(termTimer)
    /\ queryTimer' = Elapse(queryTimer)
    /\ sinceInput' = IF sinceInput + TimeStep > MaxSince THEN MaxSince
                     ELSE sinceInput + TimeStep
    /\ lastSearch' = SearchEvent("tick")
    /\ UNCHANGED <<fruits, groupBy, groupedFruits, jarItems, last, searchTerm,
                   debouncedSearchTerm, searchQuery, debouncedSearchQuery,
                   keystrokes, fetchVars, apiCall, restVars>>

InitSearch ==
    /\ fruits = <<Apple, Banana, Strawberry>>
    /\ jarItems = <<>>
    /\ groupBy = "None"
    /\ groupedFruits = groupFruitsByField(fruits, "None")
    /\ last = [op |-> "mount", fruit |-> NoFruit, groupFruits |-> <<>>,
               fruitId |-> 0, quantity |-> 0, prev |-> <<>>]
    /\ SearchMounted
    /\ FetchSettled
    /\ ApiIdle
    /\ RestInit

NextSearch ==
    \/ \E text \in TypedTexts : Type(text)
    \/ Escape
    \/ ClearButton
    \/ TermTimerFires
    \/ QueryTimerFires
    \/ Tick

SpecSearch == InitSearch /\ [][NextSearch]_vars

\* C15: useDebounce returns the initial value at once; its value changes only
\* when its timeout runs, which is when the input has been unchanged for
\* Delay, and it then is the latest input, whatever values the input took in
\* between; until then it keeps its previous value.
C15_DebounceAppliesLastAfterDelay ==
    /\ lastSearch.op = "mount" => debouncedSearchTerm = searchTerm
    /\ lastSearch.op = "termTimerFired" =>
          debouncedSearchTerm = searchTerm /\ sinceInput >= Delay
    /\ lastSearch.op \notin {"mount", "termTimerFired"} =>
          debouncedSearchTerm = lastSearch.debouncedSearchTerm
    /\ (debouncedSearchTerm # searchTerm) =>
          sinceInput <= Delay /\ termTimer.active /\ termTimer.value = searchTerm

\* "a" then "an" typed inside one window: the value goes from "" to "an"
C15_Witness ==
    /\ lastSearch.op = "termTimerFired"
    /\ lastSearch.keystrokes >= 2
    /\ lastSearch.debouncedSearchTerm = <<>>
    /\ debouncedSearchTerm = s_an

\* C16: between the typed text and the query of the filter there is one
\* quiescence window: when the typed text has been stable for more than Delay
\* the filter uses that text.
C16_FilterFreshWithinOneDelay ==
    sinceInput > Delay => debouncedSearchQuery = searchTerm

\* C17: a query newly applied to the filter is the text most recently typed;
\* a typed value replaced before it was applied is never applied later.
C17_AppliedQueryIsLatestTyped ==
    (lastSearch.op = "queryTimerFired"
        /\ debouncedSearchQuery # lastSearch.debouncedSearchQuery) =>
        debouncedSearchQuery = searchTerm

(***************************************************************************)
(* useFruitsApp: fetchFruits on mount and on refetch.  getFruits is the    *)
(* promise the hook awaits: it resolves with data or rejects.              *)
(***************************************************************************)
MaxFetches == 3

\* the item sequences a fetch delivers
FetchData == {<<>>, <<Apple, Banana>>, <<AppleRefetched, Strawberry>>}

\* what a rejected getFruits promise carries: an Error with a message, or a
\* value that is not an Error
Thrown ==
    { [isError |-> TRUE, message |-> "Failed to fetch fruits"],
      [isError |-> TRUE, message |-> "Network error"],
      [isError |-> FALSE, message |-> "timeout"] }

\* err instanceof Error ? err.message : 'An error occurred'
MessageOf(err) == IF err.isError THEN err.message ELSE "An error occurred"

FetchEvent(op, id, data, thrown) ==
    [op |-> op, id |-> id, before |-> Snapshot, data |-> data,
     thrown |-> thrown]

\* fetchFruits up to its await (lines 25 to 27), as the hook returns it under
\* the name refetch: nothing in it looks at a fetch that is still pending
fetchFruits ==
    /\ triggered < MaxFetches
    /\ loading' = TRUE
    /\ error' = Null
    /\ triggered' = triggered + 1
    /\ inFlight' = inFlight \cup {triggered + 1}
    /\ lastFetch' = FetchEvent("refetch", triggered + 1, <<>>, NoThrown)
    /\ UNCHANGED <<fruits, groupBy, groupedFruits, jarItems, last, searchVars,
                   apiCall, restVars>>

\* a retry button that stays active while a fetch is pending
Refetch_WhilePending == fetchFruits

\* refetch: fetchFruits up to its await (lines 25 to 27); the page offers
\* it with the retry button, which is rendered when no fetch is pending
Refetch ==
    /\ ~loading
    /\ fetchFruits

\* the awaited promise resolves: setFruits(data), finally setLoading(false),
\* and the render that follows
FetchResolve_LatestOnly(id, data) ==
    /\ id \in inFlight
    /\ inFlight' = inFlight \ {id}
    /\ fruits' = IF id = triggered THEN data ELSE fruits
    /\ loading' = FALSE
    /\ groupedFruits' =
          groupFruitsByField(filteredFruits(fruits', debouncedSearchQuery), groupBy)
    /\ lastFetch' = FetchEvent("resolved", id, data, NoThrown)
    /\ UNCHANGED <<error, groupBy, jarItems, last, searchVars, triggered,
                   apiCall, restVars>>

FetchResolve_NoFinally(id, data) ==
    /\ id \in inFlight
    /\ inFlight' = inFlight \ {id}
    /\ fruits' = data
    /\ groupedFruits' =
          groupFruitsByField(filteredFruits(data, debouncedSearchQuery), groupBy)
    /\ lastFetch' = FetchEvent("resolved", id, data, NoThrown)
    /\ UNCHANGED <<loading, error, groupBy, jarItems, last, searchVars,
                   triggered, apiCall, restVars>>

FetchResolve(id, data) ==
    /\ id \in inFlight
    /\ inFlight' = inFlight \ {id}
    /\ fruits' = data
    /\ loading' = FALSE
    /\ groupedFruits' =
          groupFruitsByField(filteredFruits(data, debouncedSearchQuery), groupBy)
    /\ lastFetch' = FetchEvent("resolved", id, data, NoThrown)
    /\ UNCHANGED <<error, groupBy, jarItems, last, searchVars, triggered,
                   apiCall, restVars>>

\* the awaited promise rejects: setError(...), finally setLoading(false)
FetchReject_ClearsFruits(id, err) ==
    /\ id \in inFlight
    /\ inFlight' = inFlight \ {id}
    /\ error' = ErrorMessage(MessageOf(err))
    /\ loading' = FALSE
    /\ fruits' = <<>>
    /\ groupedFruits' = groupFruitsByField(<<>>, groupBy)
    /\ lastFetch' = FetchEvent("rejected", id, <<>>, err)
    /\ UNCHANGED <<groupBy, jarItems, last, searchVars, triggered, apiCall, restVars>>

FetchReject(id, err) ==
    /\ id \in inFlight
    /\ inFlight' = inFlight \ {id}
    /\ error' = ErrorMessage(MessageOf(err))
    /\ loading' = FALSE
    /\ lastFetch' = FetchEvent("rejected", id, <<>>, err)
    /\ UNCHANGED <<fruits, groupBy, groupedFruits, jarItems, last, searchVars,
                   triggered, apiCall, restVars>>

InitFetch == Init

NextFetch ==
    \/ Refetch
    \/ \E id \in 1..MaxFetches, data \in FetchData : FetchResolve(id, data)
    \/ \E id \in 1..MaxFetches, err \in Thrown : FetchReject(id, err)
    \/ (fruits # <<>> /\ HandleAddFruit(fruits[1]))
    \/ \E g \in {"None", "Family"} : SetGroupBy(g)
    \/ \E q \in {<<>>, s_an} : ApplyQuery(q)

SpecFetch == InitFetch /\ [][NextFetch]_vars

\* the step is the settling of a fetch with the given outcome
Settles(op) == lastFetch' # lastFetch /\ lastFetch'.op = op

\* C18: at mount exactly one fetch is pending with loading true, error null,
\* no items, an empty jar and groupBy None; when that fetch resolves with
\* data D loading becomes false, error stays null and the items are D; when
\* any fetch settles, resolved or rejected, loading becomes false.
C18_MountFetch ==
    /\ [](lastFetch.op = "mount" =>
            /\ loading /\ error = Null /\ fruits = <<>>
            /\ inFlight = {1} /\ triggered = 1
            /\ (last.op = "mount" => jarItems = <<>> /\ groupBy = "None"))
    /\ [][ /\ (Settles("resolved") /\ lastFetch'.id = 1) =>
                 /\ loading /\ ~loading'
                 /\ error = Null /\ error' = Null
                 /\ fruits' = lastFetch'.data
           /\ (Settles("resolved") \/ Settles("rejected")) =>
                 ~loading' /\ lastFetch'.id \in inFlight /\ inFlight' = {}
         ]_vars

\* the fetch of the mount delivered Apple, Banana
C18_Witness ==
    /\ lastFetch.op = "resolved"
    /\ lastFetch.id = 1
    /\ lastFetch.before.fruits = <<>>
    /\ fruits = <<Apple, Banana>>
    /\ ~loading

\* C19: when a fetch fails with error e, error becomes e's message and
\* loading false, and items, jar, groupBy and search query stay what they
\* were; when a later fetch succeeds the items become its data and error is
\* null.
C19_FailureKeepsState ==
    [][ /\ Settles("rejected") =>
              /\ error' # Null
              /\ lastFetch'.thrown.isError =>
                    error' = ErrorMessage(lastFetch'.thrown.message)
              /\ ~loading'
              /\ fruits' = fruits
              /\ jarItems' = jarItems
              /\ groupBy' = groupBy
              /\ searchQuery' = searchQuery
              /\ debouncedSearchQuery' = debouncedSearchQuery
        /\ Settles("resolved") =>
              fruits' = lastFetch'.data /\ error' = Null
      ]_vars

\* a refetch fails with 'Network error' while items, jar, grouping and query
\* hold values
C19_Witness ==
    /\ lastFetch.op = "rejected"
    /\ lastFetch.id > 1
    /\ error = ErrorMessage("Network error")
    /\ fruits = <<Apple, Banana>>
    /\ jarItems # <<>>
    /\ groupBy = "Family"
    /\ searchQuery = s_an

(***************************************************************************)
(* services/api: getFruits over the outcomes of apiClient.get.             *)
(***************************************************************************)
s_Orange == <<"O", "r", "a", "n", "g", "e">>
s_Rutaceae == <<"R", "u", "t", "a", "c", "e", "a", "e">>
s_Sapindales == <<"S", "a", "p", "i", "n", "d", "a", "l", "e", "s">>
s_Citrus == <<"C", "i", "t", "r", "u", "s">>

Orange == Fruit(3, s_Orange, s_Rutaceae, s_Sapindales, s_Citrus, 47)

MOCK_FRUITS == <<Apple, Banana, Orange>>

\* the records a response body is made of
ApiCatalog == {Apple, Banana, Strawberry, Orange, Kiwi}

\* what apiClient.get('/api/fruits') ends with: a 2xx response with a body,
\* a response with an error status, no response at all, or the timeout
Responses ==
    { [kind |-> "ok", status |-> 200, data |-> D] :
         D \in SeqsUpTo(ApiCatalog, MaxFruits) }
    \cup { [kind |-> "httpError", status |-> st, data |-> <<>>] : st \in {404, 500} }
    \cup { [kind |-> "networkError", status |-> 0, data |-> <<>>],
           [kind |-> "timeout", status |-> 0, data |-> <<>>] }

\* getFruits: try { return response.data } catch { return MOCK_FRUITS }
getFruits(response) ==
    IF response.kind = "ok"
    THEN [settled |-> "resolved", value |-> response.data]
    ELSE [settled |-> "resolved", value |-> MOCK_FRUITS]

\* getFruits() is called: the request is sent
CallGetFruits ==
    /\ apiCall.op \in {"none", "settled"}
    /\ apiCall' = [op |-> "pending"]
    /\ UNCHANGED <<fruits, groupBy, groupedFruits, jarItems, last, searchVars,
                   fetchVars, restVars>>

\* the request ends and the promise of getFruits settles
Respond(response) ==
    /\ apiCall.op = "pending"
    /\ apiCall' = [op |-> "settled", response |-> response,
                   result |-> getFruits(response)]
    /\ UNCHANGED <<fruits, groupBy, groupedFruits, jarItems, last, searchVars,
                   fetchVars, restVars>>

InitApi == Init

NextApi ==
    \/ CallGetFruits
    \/ \E response \in Responses : Respond(response)

SpecApi == InitApi /\ [][NextApi]_vars

\* C20: getFruits rejects when the response is not OK or the request
\* fails, and returns the item data only when the request succeeds.
C20_GetFruitsRejectsOnFailure ==
    apiCall.op = "settled" =>
        IF apiCall.response.kind = "ok"
        THEN apiCall.result = [settled |-> "resolved",
                               value |-> apiCall.response.data]
        ELSE apiCall.result.settled = "rejected"

InitRace == Init

NextRace ==
    \/ fetchFruits
    \/ \E id \in 1..MaxFetches, data \in FetchData : FetchResolve(id, data)
    \/ \E id \in 1..MaxFetches, err \in Thrown : FetchReject(id, err)

SpecRace == InitRace /\ [][NextRace]_vars

\* C22: when fetches overlap and succeed, the items held after a fetch
\* resolved are the data of that fetch, the one that resolved last, whichever
\* was triggered first.
C22_LastResolvedWins ==
    lastFetch.op = "resolved" => fruits = lastFetch.data

\* fetch 2 was triggered while fetch 1 was pending and resolved first; fetch
\* 1 resolved last and its data replaced that of fetch 2
C22_Witness ==
    /\ triggered = 2
    /\ inFlight = {}
    /\ error = Null
    /\ lastFetch.op = "resolved"
    /\ lastFetch.id = 1
    /\ lastFetch.before.fruits = <<AppleRefetched, Strawberry>>
    /\ fruits = <<Apple, Banana>>

\* C26: for every interleaving of refetch calls and completions, loading is
\* false only when no fetch is pending, and once none is pending error is
\* non-null only if the fetch triggered last failed.
C26_ErrorAndLoadingFollowLatestFetch ==
    /\ ~loading => inFlight = {}
    /\ (inFlight = {} /\ error # Null /\ lastFetch.id = triggered) =>
          lastFetch.op = "rejected"

(***************************************************************************)
(* C25: the search box at rest.                                            *)
(***************************************************************************)
\* no timeout of either useDebounce is pending
TimersAtRest == ~termTimer.active /\ ~queryTimer.active

\* C25: for every sequence of typing, Escape and clear-button actions, when
\* all debounce timers have fired the query used by the filter is the text
\* shown in the input.
C25_FilterFollowsInputAtRest ==
    TimersAtRest => debouncedSearchQuery = searchTerm

(***************************************************************************)
(* utils/workerManager: the WorkerManager singleton, its request methods   *)
(* and the events of its worker.                                           *)
(***************************************************************************)
MaxRequests == 3

\* the message types of the six request methods
RequestTypes ==
    {"FILTER_FRUITS", "SORT_FRUITS", "CALCULATE_STATISTICS",
     "PROCESS_LARGE_DATASET", "GROUP_FRUITS", "SEARCH_FRUITS"}

\* what the promise of a request settles with
WorkerResult == "result of the worker"
WorkerFailure == "error of the worker"
NotAvailable == "Web Worker not available"
ErrorOccurred == "Worker error occurred"
EmptyArray == "[]"

\* !this.worker || !this.isSupported is false
Available(wm) == wm.worker # "null" /\ wm.isSupported

\* the constructor: typeof Worker is undefined, or new Worker throws, or the
\* worker is created
Constructed ==
    { [worker |-> "Worker", isSupported |-> TRUE, pendingRequests |-> {}],
      [worker |-> "null", isSupported |-> FALSE, pendingRequests |-> {}] }

\* resolve or reject of the promise of request id is called
Settle(ps, id, state, value) ==
    [ps EXCEPT ![id] =
        IF @.state = "pending"
        THEN [@ EXCEPT !.state = state, !.value = value, !.settles = @ + 1]
        ELSE [@ EXCEPT !.settles = @ + 1]]

\* sendMessage, reached through one of the six request methods; generateId
\* gives an id no earlier request has
sendMessage(type) ==
    /\ Len(promises) < MaxRequests
    /\ LET id == Len(promises) + 1 IN
       IF ~Available(workerManager)
       THEN /\ promises' = Append(promises,
                 [type |-> type, available |-> FALSE, state |-> "rejected",
                  value |-> NotAvailable, settles |-> 1])
            /\ UNCHANGED <<workerManager, posted>>
       ELSE /\ promises' = Append(promises,
                 [type |-> type, available |-> TRUE, state |-> "pending",
                  value |-> "", settles |-> 0])
            /\ workerManager' =
                  [workerManager EXCEPT !.pendingRequests = @ \cup {id}]
            /\ posted' = posted \cup {id}
    /\ UNCHANGED <<fruits, groupBy, groupedFruits, jarItems, last, searchVars,
                   fetchVars, apiCall, viewVars, mutationVars>>

\* the worker answers a message it was sent, with SUCCESS or ERROR and the id
\* of the message: handleWorkerMessage
handleWorkerMessage(id, type) ==
    /\ id \in posted
    /\ posted' = posted \ {id}
    /\ IF id \notin workerManager.pendingRequests
       THEN UNCHANGED <<workerManager, promises>>
       ELSE /\ workerManager' =
                  [workerManager EXCEPT !.pendingRequests = @ \ {id}]
            /\ promises' =
                  IF type = "SUCCESS"
                  THEN Settle(promises, id, "resolved", WorkerResult)
                  ELSE Settle(promises, id, "rejected", WorkerFailure)
    /\ UNCHANGED <<fruits, groupBy, groupedFruits, jarItems, last, searchVars,
                   fetchVars, apiCall, viewVars, mutationVars>>

\* reject of every pending request, in any order
RECURSIVE RejectAll(_, _)
RejectAll(ps, ids) ==
    IF ids = {} THEN ps
    ELSE LET id == CHOOSE x \in ids : TRUE IN
         RejectAll(Settle(ps, id, "rejected", ErrorOccurred), ids \ {id})

\* the error event of the worker: handleWorkerError
handleWorkerError ==
    /\ workerManager.worker # "null"
    /\ promises' = RejectAll(promises, workerManager.pendingRequests)
    /\ workerManager' = [workerManager EXCEPT !.pendingRequests = {}]
    /\ UNCHANGED <<fruits, groupBy, groupedFruits, jarItems, last, searchVars,
                   fetchVars, apiCall, viewVars, mutationVars, posted>>

\* terminate(): the worker is stopped and forgotten, the map is cleared
terminate ==
    /\ workerManager' = [workerManager EXCEPT !.worker = "null",
                                              !.pendingRequests = {}]
    /\ posted' = {}
    /\ UNCHANGED <<fruits, groupBy, groupedFruits, jarItems, last, searchVars,
                   fetchVars, apiCall, viewVars, mutationVars, promises>>

InitWorker ==
    /\ fruits = <<>>
    /\ jarItems = <<>>
    /\ groupBy = "None"
    /\ groupedFruits = groupFruitsByField(<<>>, "None")
    /\ last = [op |-> "mount", fruit |-> NoFruit, groupFruits |-> <<>>,
               fruitId |-> 0, quantity |-> 0, prev |-> <<>>]
    /\ SearchMounted
    /\ FetchMounted
    /\ ApiIdle
    /\ ViewInit
    /\ CacheIdle
    /\ workerManager \in Constructed
    /\ promises = <<>>
    /\ posted = {}

NextWorker ==
    \/ \E type \in RequestTypes : sendMessage(type)
    \/ \E id \in 1..MaxRequests, type \in {"SUCCESS", "ERROR"} :
          handleWorkerMessage(id, type)
    \/ handleWorkerError
    \/ terminate

SpecWorker == InitWorker /\ [][NextWorker]_vars

\* C23: when Web Workers are unavailable, filterFruits resolves with an
\* empty array instead of rejecting.
C23_FilterResolvesEmptyWhenUnavailable ==
    \A id \in 1..Len(promises) :
        (promises[id].type = "FILTER_FRUITS" /\ ~promises[id].available) =>
            promises[id].state = "resolved" /\ promises[id].value = EmptyArray

\* C27: every promise of a request method settles exactly once and
\* eventually: one that is still pending is in the map of a living worker
\* that owes it an answer, so that the answer, an error of the worker or the
\* missing worker settles it; terminate leaves none pending; a response with
\* an unknown id settles nothing.
C27_EveryRequestSettles ==
    \A id \in 1..Len(promises) :
        /\ promises[id].settles <= 1
        /\ promises[id].state = "pending" =>
              /\ id \in workerManager.pendingRequests
              /\ workerManager.worker # "null"
              /\ id \in posted

(***************************************************************************)
(* mutations/useJarMutations: the three mutations of useJarOperations on   *)
(* the cached jar of the query client.  The mutation function              *)
(* (services/jarApi) succeeds or fails.                                    *)
(***************************************************************************)
MaxMutations == 2

\* getQueryData<JarItem[]>(queryKeys.jar.items()) || []
CachedItems(cache) == IF cache.defined THEN cache.items ELSE <<>>

\* setQueryData with an array
Stored(items) == [defined |-> TRUE, items |-> items]

\* the updater of addFruit.onMutate (lines 25 to 35); old may be undefined
OptimisticAdd(old, fruit, quantity) ==
    IF old.defined /\ \E i \in 1..Len(old.items) : old.items[i].fruit.id = fruit.id
    THEN [i \in 1..Len(old.items) |->
             IF old.items[i].fruit.id = fruit.id
             THEN [old.items[i] EXCEPT !.quantity = @ + quantity]
             ELSE old.items[i]]
    ELSE Append(CachedItems(old), [fruit |-> fruit, quantity |-> quantity])

\* the updater of removeFruit.onMutate (lines 69 to 71)
OptimisticRemove(old, itemId) ==
    IF old.defined
    THEN SelectSeq(old.items, LAMBDA item : item.fruit.id # itemId)
    ELSE <<>>

\* the updater of updateQuantity.onMutate (lines 102 to 108)
OptimisticUpdate(old, itemId, quantity) ==
    IF old.defined
    THEN [i \in 1..Len(old.items) |->
             IF old.items[i].fruit.id = itemId
             THEN [old.items[i] EXCEPT !.quantity = quantity]
             ELSE old.items[i]]
    ELSE <<>>

Optimistic(old, kind, fruit, itemId, quantity) ==
    CASE kind = "addFruit" -> OptimisticAdd(old, fruit, quantity)
      [] kind = "removeFruit" -> OptimisticRemove(old, itemId)
      [] OTHER -> OptimisticUpdate(old, itemId, quantity)

\* the variables a mutation is started with
MutationInputs ==
    { [kind |-> "addFruit", fruit |-> f, itemId |-> f.id, quantity |-> q] :
         f \in {Apple, Banana}, q \in 1..2 }
    \cup { [kind |-> "removeFruit", fruit |-> NoFruit, itemId |-> id, quantity |-> 0] :
         id \in 1..2 }
    \cup { [kind |-> "updateQuantity", fruit |-> NoFruit, itemId |-> id, quantity |-> q] :
         id \in 1..2, q \in 1..2 }

\* every other mutation still pending saw the cache change under it
Disturb(ms, index) ==
    [i \in 1..Len(ms) |->
        IF i # index /\ ms[i].status = "pending"
        THEN [ms[i] EXCEPT !.clean = FALSE] ELSE ms[i]]

\* onError: if (context?.previousJarItems) setQueryData(key, previousJarItems)
onError_NoRollback(cache, previousJarItems) == cache

onError(cache, previousJarItems) == Stored(previousJarItems)

\* mutate(variables): onMutate takes the snapshot and applies the optimistic
\* update in one synchronous run after its await of cancelQueries
Mutate(input) ==
    /\ Len(mutations) < MaxMutations
    /\ jarCache' = Stored(Optimistic(jarCache, input.kind, input.fruit,
                                     input.itemId, input.quantity))
    /\ mutations' =
          Append(Disturb(mutations, 0),
                 [kind |-> input.kind, fruit |-> input.fruit,
                  itemId |-> input.itemId, quantity |-> input.quantity,
                  status |-> "pending",
                  previousJarItems |-> CachedItems(jarCache),
                  before |-> jarCache, clean |-> TRUE])
    /\ lastMutation' = [op |-> "mutate", index |-> Len(mutations) + 1]
    /\ UNCHANGED <<fruits, groupBy, groupedFruits, jarItems, last, searchVars,
                   fetchVars, apiCall, viewVars, workerVars>>

\* the mutation function resolves: onSettled invalidates the query, which
\* has no query function to fetch with
MutationSucceeds(index) ==
    /\ index \in 1..Len(mutations)
    /\ mutations[index].status = "pending"
    /\ mutations' = [mutations EXCEPT ![index].status = "success"]
    /\ lastMutation' = [op |-> "success", index |-> index]
    /\ UNCHANGED <<fruits, groupBy, groupedFruits, jarItems, last, searchVars,
                   fetchVars, apiCall, viewVars, workerVars, jarCache>>

\* the mutation function rejects: onError rolls back, then onSettled
MutationFails(index) ==
    /\ index \in 1..Len(mutations)
    /\ mutations[index].status = "pending"
    /\ jarCache' = onError(jarCache, mutations[index].previousJarItems)
    /\ mutations' =
          [Disturb(mutations, index) EXCEPT ![index].status = "error"]
    /\ lastMutation' = [op |-> "error", index |-> index]
    /\ UNCHANGED <<fruits, groupBy, groupedFruits, jarItems, last, searchVars,
                   fetchVars, apiCall, viewVars, workerVars>>

InitMutations == Init

NextMutations ==
    \/ \E input \in MutationInputs : Mutate(input)
    \/ \E index \in 1..MaxMutations : MutationSucceeds(index)
    \/ \E index \in 1..MaxMutations : MutationFails(index)

SpecMutations == InitMutations /\ [][NextMutations]_vars

\* the mutation whose failure was handled last, with nothing in between
FailedClean ==
    /\ lastMutation.op = "error"
    /\ mutations[lastMutation.index].clean

EffectPresent(m, items) ==
    CASE m.kind = "addFruit" ->
            \E i \in 1..Len(items) :
               items[i].fruit.id = m.fruit.id /\ items[i].quantity >= m.quantity
      [] m.kind = "removeFruit" ->
            \A i \in 1..Len(items) : items[i].fruit.id # m.itemId
      [] OTHER ->
            \A i \in 1..Len(items) :
               items[i].fruit.id = m.itemId => items[i].quantity = m.quantity

handleViewFruit(fruit) ==
    /\ selectedFruit' = fruit
    /\ isModalOpen' = TRUE
    /\ last' = Call("handleViewFruit", fruit, <<>>, 0, 0)
    /\ UNCHANGED <<fruits, groupBy, groupedFruits, jarItems, searchVars,
                   fetchVars, apiCall, showChart, Jar_selectedFruit,
                   workerVars, mutationVars>>

handleCloseModal ==
    /\ isModalOpen' = FALSE
    /\ selectedFruit' = NoFruit
    /\ last' = Call("handleCloseModal", NoFruit, <<>>, 0, 0)
    /\ UNCHANGED <<fruits, groupBy, groupedFruits, jarItems, searchVars,
                   fetchVars, apiCall, showChart, Jar_selectedFruit,
                   workerVars, mutationVars>>

\* FruitDetailsModal.handleAddToJar of the rendered modal (isOpen and fruit
\* set): onAddToJar(fruit), which is handleAddToJarFromModal (handleAddFruit,
\* then handleCloseModal), then onClose(), which is handleCloseModal again
handleAddToJar_AddsTwice ==
    /\ isModalOpen
    /\ selectedFruit # NoFruit
    /\ QuantitiesWithin(addFruitToJar(addFruitToJar(jarItems, selectedFruit),
                                      selectedFruit))
    /\ jarItems' = addFruitToJar(addFruitToJar(jarItems, selectedFruit),
                                 selectedFruit)
    /\ isModalOpen' = FALSE
    /\ selectedFruit' = NoFruit
    /\ last' = Call("handleAddToJarFromModal", selectedFruit, <<>>, 0, 0)
    /\ UNCHANGED <<fruits, groupBy, groupedFruits, searchVars, fetchVars,
                   apiCall, showChart, Jar_selectedFruit, workerVars,
                   mutationVars>>

handleAddToJar ==
    /\ isModalOpen
    /\ selectedFruit # NoFruit
    /\ QuantitiesWithin(addFruitToJar(jarItems, selectedFruit))
    /\ jarItems' = addFruitToJar(jarItems, selectedFruit)
    /\ isModalOpen' = FALSE
    /\ selectedFruit' = NoFruit
    /\ last' = Call("handleAddToJarFromModal", selectedFruit, <<>>, 0, 0)
    /\ UNCHANGED <<fruits, groupBy, groupedFruits, searchVars, fetchVars,
                   apiCall, showChart, Jar_selectedFruit, workerVars,
                   mutationVars>>

InitModal == Init

NextModal ==
    \/ \E fruit \in JarFruits : handleViewFruit(fruit)
    \/ handleCloseModal
    \/ handleAddToJar
    \/ \E fruit \in JarFruits : HandleAddFruit(fruit)
    \/ \E fruitId \in FruitIds : HandleRemoveFromJar(fruitId)

SpecModal == InitModal /\ [][NextModal]_vars

\* C29: 'Add to Jar' in the modal opened for fruit f adds exactly one unit of
\* f: the sum of the quantities grows by 1, the quantity of f's id grows by
\* 1, every other entry is unchanged; the modal is closed afterwards and no
\* fruit is selected.
C29_ModalAddsOneAndCloses ==
    last.op = "handleAddToJarFromModal" =>
        LET prev == last.prev
            f == last.fruit
        IN /\ QuantitySum(jarItems, 1..Len(jarItems))
                 = QuantitySum(prev, 1..Len(prev)) + 1
           /\ QuantityOf(jarItems, f.id) = QuantityOf(prev, f.id) + 1
           /\ \A i \in 1..Len(prev) :
                 prev[i].fruit.id # f.id => jarItems[i] = prev[i]
           /\ Len(jarItems) =
                 IF PositionsOf(prev, f.id) = {} THEN Len(prev) + 1 ELSE Len(prev)
           /\ ~isModalOpen
           /\ selectedFruit = NoFruit

\* Banana added from the modal to a jar that holds Apple and Banana
C29_Witness ==
    /\ last.op = "handleAddToJarFromModal"
    /\ last.fruit = Banana
    /\ last.prev = <<[fruit |-> Apple, quantity |-> 2],
                     [fruit |-> Banana, quantity |-> 1]>>
    /\ jarItems = <<[fruit |-> Apple, quantity |-> 2],
                    [fruit |-> Banana, quantity |-> 2]>>
    /\ ~isModalOpen

(***************************************************************************)
(* The Jar component: the chart toggle, the selection made by clicking a    *)
(* pie segment, and the item controls of the list it shows.                 *)
(***************************************************************************)
InJar(fruitId) == \E i \in 1..Len(jarItems) : jarItems[i].fruit.id = fruitId

\* the item of fruitId is in a JarItemList on screen: the full list of the
\* list view, or the filtered list under the chart
Displayed(fruitId) ==
    /\ InJar(fruitId)
    /\ \/ ~showChart
       \/ Jar_selectedFruit # NullId /\ Jar_selectedFruit = fruitId

\* handleToggleChart; the button is disabled while the jar is empty
handleToggleChart ==
    /\ jarItems # <<>>
    /\ showChart' = ~showChart
    /\ Jar_selectedFruit' = NullId
    /\ last' = Call("handleToggleChart", NoFruit, <<>>, 0, 0)
    /\ UNCHANGED <<fruits, groupBy, groupedFruits, jarItems, searchVars,
                   fetchVars, apiCall, selectedFruit, isModalOpen, workerVars,
                   mutationVars>>

\* handleFruitSelect, called by the click on the pie segment of fruitId
handleFruitSelect(fruitId) ==
    /\ showChart
    /\ InJar(fruitId)
    /\ fruitId # 0
    /\ Jar_selectedFruit' =
          IF Jar_selectedFruit = fruitId THEN NullId ELSE fruitId
    /\ last' = [op |-> "handleFruitSelect", fruit |-> NoFruit,
                groupFruits |-> <<>>, fruitId |-> fruitId, quantity |-> 0,
                prev |-> jarItems, selected |-> Jar_selectedFruit]
    /\ UNCHANGED <<fruits, groupBy, groupedFruits, jarItems, searchVars,
                   fetchVars, apiCall, selectedFruit, isModalOpen, showChart,
                   workerVars, mutationVars>>

\* the 'Show all fruits' button of the selection bar
ShowAllFruits ==
    /\ showChart
    /\ jarItems # <<>>
    /\ Jar_selectedFruit # NullId
    /\ Jar_selectedFruit' = NullId
    /\ last' = Call("showAllFruits", NoFruit, <<>>, 0, 0)
    /\ UNCHANGED <<fruits, groupBy, groupedFruits, jarItems, searchVars,
                   fetchVars, apiCall, selectedFruit, isModalOpen, showChart,
                   workerVars, mutationVars>>

\* the remove button of a displayed item: onRemoveItem(item.fruit.id)
JarRemoveItem(fruitId) ==
    /\ Displayed(fruitId)
    /\ HandleRemoveFromJar(fruitId)

\* the + and - buttons of a displayed item: onUpdateQuantity(item.fruit.id,
\* item.quantity + 1 or - 1); the - button is disabled at quantity 1
JarChangeQuantity(fruitId, delta) ==
    /\ Displayed(fruitId)
    /\ QuantityOf(jarItems, fruitId) + delta >= 1
    /\ QuantityOf(jarItems, fruitId) + delta <= MaxQuantity
    /\ HandleUpdateQuantity(fruitId, QuantityOf(jarItems, fruitId) + delta)

InitJarView == Init

NextJarView ==
    \/ handleToggleChart
    \/ \E fruitId \in FruitIds : handleFruitSelect(fruitId)
    \/ ShowAllFruits
    \/ \E fruitId \in FruitIds : JarRemoveItem(fruitId)
    \/ \E fruitId \in FruitIds, delta \in {-1, 1} : JarChangeQuantity(fruitId, delta)
    \/ \E fruit \in ChartFruits : HandleAddFruit(fruit)

SpecJarView == InitJarView /\ [][NextJarView]_vars

\* C30: after any sequence of segment clicks, chart toggles, removals and
\* quantity updates, a selected fruit id has an entry in the jar; a click on
\* the selected segment and a toggle of the chart leave nothing selected.
C30_SelectionHasEntry ==
    /\ Jar_selectedFruit # NullId => InJar(Jar_selectedFruit)
    /\ last.op = "handleToggleChart" => Jar_selectedFruit = NullId
    /\ (last.op = "handleFruitSelect" /\ last.selected = last.fruitId) =>
          Jar_selectedFruit = NullId

====
